---- MODULE Spec2Model ----
(***************************************************************************)
(* A model of the NMC PIN extractor (nmc_extract.py).                      *)
(*                                                                         *)
(* Text is a sequence of one-character strings.  Python's None is the      *)
(* value None below, which differs from every text.  Confidences are kept  *)
(* in hundredths (0.99 is 99), so that they stay integers.                 *)
(***************************************************************************)
EXTENDS Integers, Sequences, FiniteSets, TLC

VARIABLES
    fn,     \* the function a harness has applied ("input" before the call)
    arg,    \* the text that function is applied to
    ret,    \* what it returned: [val |-> text or None, flag |-> BOOLEAN, conf |-> Nat]
    pc,             \* where the call of extract_nmc_pin stands
    client,         \* _client is not None (and types is not None)
    text_pages,     \* NMC_PDF_TEXT_PAGES
    image_pages,    \* NMC_PDF_IMAGE_PAGES
    model_fast,     \* GEMINI_MODEL_FAST
    model_strong,   \* GEMINI_MODEL_STRONG
    path_suffix,    \* path.suffix
    doc_pages,      \* the number of pages of the PDF
    page,           \* the pages of the PDF read so far
    combined_parts, \* the texts of the pages that gave no identifier
    text,           \* the text handed to the last text search
    images,         \* the number of images handed to the vision strategy
    failed,         \* the sub-steps that raised and were caught
    trace,          \* the strategies run so far, each with what it found
    result,         \* the record returned
    running,        \* which of two concurrent calls holds the locals above
    saved,          \* the locals of the other call, which is suspended
    rpc,            \* where the call of run_nmc_check_and_download_pdf stands
    rpin,           \* pin, the identifier handed to the driver, stripped
    out_dir_ok,     \* the output directory can be created and written
    stage,          \* the driver's variable stage
    observed,       \* the value observed in the PIN field after filling
    locator,        \* the position in download_locators
    downloaded,     \* downloaded_path: "none", or the state of the file saved
    pending,        \* the failure that is being documented by a snapshot
    snap,           \* the path of the snapshot PDF, "" for None
    run_result,     \* the record the driver returns
    apc,            \* where the request handler of app.py stands
    route,          \* the route of the request
    payload,        \* payload.get("nmc_pin") of /run-pin
    extracted,      \* the record extract_nmc_pin returned to /run
    driver_calls,   \* the arguments nmc_pin of the calls of the driver
    response        \* the name of the PDF sent back, "" before

harnessVars == <<fn, arg, ret>>

callVars ==
    <<pc, client, text_pages, image_pages, model_fast, model_strong,
      path_suffix, doc_pages, page, combined_parts, text, images, failed,
      trace, result>>

poolVars == <<running, saved>>

runnerVars ==
    <<rpc, rpin, out_dir_ok, stage, observed, locator, downloaded, pending,
      snap, run_result>>

appVars == <<apc, route, payload, extracted, driver_calls, response>>

restVars == <<poolVars, runnerVars, appVars>>

vars == <<harnessVars, callVars, restVars>>

----------------------------------------------------------------------------
(* Characters and the character classes of Python's re module (ASCII).     *)

None == <<"<None>">>

Range(f) == {f[i] : i \in DOMAIN f}

Min(a, b) == IF a <= b THEN a ELSE b

Max(a, b) == IF a >= b THEN a ELSE b

MinOf(S) == CHOOSE x \in S : \A y \in S : x <= y

UpperAlpha ==
    <<"A","B","C","D","E","F","G","H","I","J","K","L","M",
      "N","O","P","Q","R","S","T","U","V","W","X","Y","Z">>

LowerAlpha ==
    <<"a","b","c","d","e","f","g","h","i","j","k","l","m",
      "n","o","p","q","r","s","t","u","v","w","x","y","z">>

UpperLetters == Range(UpperAlpha)

LowerLetters == Range(LowerAlpha)

Digit == {"0","1","2","3","4","5","6","7","8","9"}

\* \w : letters, digits and the underscore
WordChar == UpperLetters \cup LowerLetters \cup Digit \cup {"_"}

\* \s : blank, tab, line break
SpaceChar == {" ", "\t", "\n"}

\* str.upper() on one character
upper_char(c) ==
    IF c \in LowerLetters
    THEN UpperAlpha[CHOOSE i \in DOMAIN LowerAlpha : LowerAlpha[i] = c]
    ELSE c

\* str.lower() on one character
lower_char(c) ==
    IF c \in UpperLetters
    THEN LowerAlpha[CHOOSE i \in DOMAIN UpperAlpha : UpperAlpha[i] = c]
    ELSE c

\* str.upper(), as a tuple
upper(s) == SubSeq([i \in 1..Len(s) |-> upper_char(s[i])], 1, Len(s))

\* str.lower(), as a tuple
lower(s) == SubSeq([i \in 1..Len(s) |-> lower_char(s[i])], 1, Len(s))

\* s[a:b] of Python with 0-based a, b (clipped to the text), as s[a+1 .. b]
Slice(s, a, b) == SubSeq(s, a + 1, Min(b, Len(s)))

\* \b before the character at 1-based position p (p = Len(s)+1 : at the end)
WordBoundary(s, p) ==
    LET before == p > 1 /\ p - 1 <= Len(s) /\ s[p - 1] \in WordChar
        after  == p >= 1 /\ p <= Len(s) /\ s[p] \in WordChar
    IN  before # after

----------------------------------------------------------------------------
(* The patterns, nmc_extract.py lines 29-30.  Both are compiled with re.I,  *)
(* so a letter class matches either case.                                  *)

MonthLetters == {"A","B","C","D","E","F","G","H","I","J","K","L"}

CountryLetters == {"E","S","W","N","O"}

PinLen == 8

\* \d{2}[A-L]\d{4}[ESWNO] at position i, re.I, without the two \b
StrictShapeAt(s, i) ==
    /\ i >= 1
    /\ i + PinLen - 1 <= Len(s)
    /\ s[i] \in Digit
    /\ s[i + 1] \in Digit
    /\ upper_char(s[i + 2]) \in MonthLetters
    /\ s[i + 3] \in Digit
    /\ s[i + 4] \in Digit
    /\ s[i + 5] \in Digit
    /\ s[i + 6] \in Digit
    /\ upper_char(s[i + 7]) \in CountryLetters

\* \d{2}[A-Z]\d{4}[A-Z] at position i, re.I, without the two \b
LooseShapeAt(s, i) ==
    /\ i >= 1
    /\ i + PinLen - 1 <= Len(s)
    /\ s[i] \in Digit
    /\ s[i + 1] \in Digit
    /\ upper_char(s[i + 2]) \in UpperLetters
    /\ s[i + 3] \in Digit
    /\ s[i + 4] \in Digit
    /\ s[i + 5] \in Digit
    /\ s[i + 6] \in Digit
    /\ upper_char(s[i + 7]) \in UpperLetters

\* STRICT_NMC_RE matches at position i
STRICT_NMC_RE(s, i) ==
    WordBoundary(s, i) /\ StrictShapeAt(s, i) /\ WordBoundary(s, i + PinLen)

\* LOOSE_8_RE matches at position i
LOOSE_8_RE(s, i) ==
    WordBoundary(s, i) /\ LooseShapeAt(s, i) /\ WordBoundary(s, i + PinLen)

\* STRICT_NMC_RE.search(s): the position of the leftmost match, 0 for no match
StrictSearch(s) ==
    LET hits == {i \in 1..(Len(s) - PinLen + 1) : STRICT_NMC_RE(s, i)}
    IN  IF hits = {} THEN 0 ELSE MinOf(hits)

\* LOOSE_8_RE.search(s): the position of the leftmost match, 0 for no match
LooseSearch(s) ==
    LET hits == {i \in 1..(Len(s) - PinLen + 1) : LOOSE_8_RE(s, i)}
    IN  IF hits = {} THEN 0 ELSE MinOf(hits)

\* m.group(0) of a match at position i
Group0(s, i) == SubSeq(s, i, i + PinLen - 1)

----------------------------------------------------------------------------
(* Positional OCR fixes, lines 64-93.                                      *)

\* _DIGIT_FIX without its entry for "L"
DIGIT_FIX_without_L(c) ==
    CASE c = "O" -> "0"
      [] c = "I" -> "1"
      [] c = "S" -> "5"
      [] c = "B" -> "8"
      [] OTHER -> c

\* _DIGIT_FIX.get(c, c)
DIGIT_FIX(c) ==
    CASE c = "O" -> "0"
      [] c = "I" -> "1"
      [] c = "L" -> "1"
      [] c = "S" -> "5"
      [] c = "B" -> "8"
      [] OTHER -> c

\* _LETTER_FIX.get(c, c)
LETTER_FIX(c) ==
    CASE c = "0" -> "O"
      [] c = "1" -> "I"
      [] c = "5" -> "S"
      [] c = "8" -> "B"
      [] OTHER -> c

\* the digit positions (0,1,3,4,5,6) and letter positions (2,7), 1-based
DigitPositions == {1, 2, 4, 5, 6, 7}

LetterPositions == {3, 8}

\* _normalize_token that drops what is not A-Z or 0-9 without upper-casing
normalize_token_no_upper(token) ==
    SelectSeq(token, LAMBDA c : c \in UpperLetters \cup Digit)

\* _normalize_token: upper-case, then drop what is not A-Z or 0-9
normalize_token(token) ==
    SelectSeq(upper(token), LAMBDA c : c \in UpperLetters \cup Digit)

\* _fix_by_position, on a token of 8 characters
fix_by_position(token8) ==
    [i \in 1..Len(token8) |->
        IF i \in DigitPositions THEN DIGIT_FIX(token8[i])
        ELSE IF i \in LetterPositions THEN LETTER_FIX(token8[i])
        ELSE token8[i]]

\* _validate_strict with STRICT_NMC_RE.search in place of fullmatch
validate_strict_search(pin) == StrictSearch(pin) # 0

\* _validate_strict: STRICT_NMC_RE.fullmatch(pin)
validate_strict(pin) == Len(pin) = PinLen /\ STRICT_NMC_RE(pin, 1)

\* the windowed scan never starts beyond this offset (line 119)
ScanLimit == 16

\* _clean_and_validate with the windowed scan over the whole normalized text
clean_and_validate_unlimited(raw) ==
    LET s  == normalize_token(raw)
        m  == StrictSearch(s)
        starts == {st \in 0..(Len(s) - 8) :
                      validate_strict(fix_by_position(Slice(s, st, st + PinLen)))}
        m2 == LooseSearch(s)
        fixed2 == fix_by_position(upper(Group0(s, m2)))
    IN  IF s = <<>> THEN None
        ELSE IF m # 0 THEN upper(Group0(s, m))
        ELSE IF Len(s) >= PinLen /\ starts # {}
             THEN fix_by_position(Slice(s, MinOf(starts), MinOf(starts) + PinLen))
        ELSE IF m2 # 0 /\ validate_strict(fixed2) THEN fixed2
        ELSE None

\* _clean_and_validate
clean_and_validate(raw) ==
    LET s  == normalize_token(raw)
        m  == StrictSearch(s)
        starts == {st \in 0..(Min(Len(s) - 7, ScanLimit) - 1) :
                      validate_strict(fix_by_position(Slice(s, st, st + PinLen)))}
        m2 == LooseSearch(s)
        fixed2 == fix_by_position(upper(Group0(s, m2)))
    IN  IF s = <<>> THEN None
        ELSE IF m # 0 THEN upper(Group0(s, m))
        ELSE IF Len(s) >= PinLen /\ starts # {}
             THEN fix_by_position(Slice(s, MinOf(starts), MinOf(starts) + PinLen))
        ELSE IF m2 # 0 /\ validate_strict(fixed2) THEN fixed2
        ELSE None

----------------------------------------------------------------------------
(* The label pattern ANCHOR_RE, lines 32-45: alternatives tried in order,  *)
(* each a list of words with \s* between them, compiled with re.I.         *)

W_NMC == <<"N","M","C">>

W_PIN == <<"P","I","N">>

W_NUMBER == <<"N","U","M","B","E","R">>

W_NO == <<"N","O">>

W_HASH == <<"#">>

W_COLON == <<":">>

W_REGISTRATION == <<"R","E","G","I","S","T","R","A","T","I","O","N">>

W_PERSONAL == <<"P","E","R","S","O","N","A","L">>

W_IDENTIFICATION ==
    <<"I","D","E","N","T","I","F","I","C","A","T","I","O","N">>

\* the alternatives of ANCHOR_RE in the order of the pattern; dot: a
\* trailing \.? (only PIN\s*NO\.? has one)
AnchorAlternatives ==
    << [words |-> <<W_NMC, W_PIN>>, dot |-> FALSE],
       [words |-> <<W_NMC, W_PIN, W_NUMBER>>, dot |-> FALSE],
       [words |-> <<W_PIN, W_NUMBER>>, dot |-> FALSE],
       [words |-> <<W_PIN, W_NO>>, dot |-> TRUE],
       [words |-> <<W_PIN, W_HASH>>, dot |-> FALSE],
       [words |-> <<W_PIN, W_COLON>>, dot |-> FALSE],
       [words |-> <<W_REGISTRATION, W_NUMBER>>, dot |-> FALSE],
       [words |-> <<W_NMC, W_REGISTRATION, W_NUMBER>>, dot |-> FALSE],
       [words |-> <<W_PERSONAL, W_IDENTIFICATION, W_NUMBER>>, dot |-> FALSE] >>

\* the literal word w stands at position p of s (letters in either case)
LiteralAt(s, p, w) ==
    /\ p >= 1
    /\ p + Len(w) - 1 <= Len(s)
    /\ \A j \in 1..Len(w) : upper_char(s[p + j - 1]) = w[j]

RECURSIVE SkipSpaces(_, _)
\* \s* from position p: the position after the white space
SkipSpaces(s, p) ==
    IF p <= Len(s) /\ s[p] \in SpaceChar THEN SkipSpaces(s, p + 1) ELSE p

RECURSIVE MatchWords(_, _, _, _)
\* words[k..] with \s* between them, from position p: the position after
\* the match, 0 for no match
MatchWords(s, p, words, k) ==
    IF ~LiteralAt(s, p, words[k]) THEN 0
    ELSE IF k = Len(words) THEN p + Len(words[k])
    ELSE MatchWords(s, SkipSpaces(s, p + Len(words[k])), words, k + 1)

\* one alternative at position p: the position after the match, 0 for none
MatchAlternative(s, p, alt) ==
    LET e == MatchWords(s, p, alt.words, 1)
    IN  IF e = 0 THEN 0
        ELSE IF alt.dot /\ e <= Len(s) /\ s[e] = "." THEN e + 1
        ELSE e

\* the characters a match of ANCHOR_RE can begin with
AnchorFirstChars ==
    {AnchorAlternatives[a].words[1][1] : a \in DOMAIN AnchorAlternatives}

\* ANCHOR_RE at position p: the first alternative that matches decides;
\* the position after the match, 0 for no match
AnchorAt(s, p) ==
    IF upper_char(s[p]) \notin AnchorFirstChars THEN 0
    ELSE LET ok == {a \in DOMAIN AnchorAlternatives :
                       MatchAlternative(s, p, AnchorAlternatives[a]) # 0}
         IN  IF ok = {} THEN 0
             ELSE MatchAlternative(s, p, AnchorAlternatives[MinOf(ok)])

RECURSIVE AnchorEndsFrom(_, _, _)
\* ANCHOR_RE.finditer from position p: the position after each match, in
\* text order, matches not overlapping; starts: where the pattern matches
AnchorEndsFrom(s, starts, p) ==
    LET next == {q \in starts : q >= p}
        e    == AnchorAt(s, MinOf(next))
    IN  IF next = {} THEN <<>>
        ELSE <<e>> \o AnchorEndsFrom(s, starts, e)

\* m.end() + 1 of every match of ANCHOR_RE.finditer(T)
AnchorEnds(s) ==
    AnchorEndsFrom(s, {p \in 1..Len(s) : AnchorAt(s, p) # 0}, 1)

----------------------------------------------------------------------------
(* _extract_from_text, lines 184-239.                                      *)

\* the characters after a label that are searched (line 196)
WindowLen == 120

\* re.findall(r"[A-Z0-9]{7,12}", window) and tokenish[:3] (lines 210-211)
TokenMin == 7

TokenMax == 12

TokenTries == 3

\* the characters before and after a candidate searched for "NMC" (line 228)
VicinityLen == 80

\* the confidences, in hundredths
CONF_ANCHOR_STRICT == 99

CONF_ANCHOR_LOOSE == 98

CONF_ANCHOR_TOKEN == 96

CONF_GLOBAL_STRICT == 95

CONF_GLOBAL_NMC == 92

CONF_GLOBAL_LOOSE == 88

Found(pin, c) == [val |-> pin, flag |-> FALSE, conf |-> c]

NotFound == [val |-> None, flag |-> FALSE, conf |-> 0]

\* if pin: return pin; else go on
PinOr(pin, otherwise) == IF pin # None THEN pin ELSE otherwise

\* if pin: return pin, conf; else go on
FoundOr(pin, c, otherwise) == IF pin # None THEN Found(pin, c) ELSE otherwise

\* a step that found an identifier returns it; else the next step runs
OrElse(r, otherwise) == IF r.val # None THEN r ELSE otherwise

RECURSIVE RunLength(_, _, _)
\* how many characters of [A-Z0-9] follow from position p, at most cap
RunLength(s, p, cap) ==
    IF cap = 0 \/ p > Len(s) \/ s[p] \notin UpperLetters \cup Digit THEN 0
    ELSE 1 + RunLength(s, p + 1, cap - 1)

RECURSIVE TokensFrom(_, _)
\* re.findall(r"[A-Z0-9]{7,12}", s) from position p: greedy, not
\* overlapping; a run shorter than 7 holds no match and is passed over
TokensFrom(s, p) ==
    LET next == {q \in p..Len(s) : s[q] \in UpperLetters \cup Digit}
        q    == MinOf(next)
        n    == RunLength(s, q, TokenMax)
    IN  IF next = {} THEN <<>>
        ELSE IF n >= TokenMin
        THEN <<SubSeq(s, q, q + n - 1)>> \o TokensFrom(s, q + n)
        ELSE TokensFrom(s, q + n)

Tokenish(window) == TokensFrom(window, 1)

RECURSIVE FirstCleaned(_, _, _)
\* the loop of lines 211-214 over toks[k..n]: the first token that cleans
FirstCleaned(toks, k, n) ==
    IF k > n \/ k > Len(toks) THEN None
    ELSE PinOr(clean_and_validate(toks[k]), FirstCleaned(toks, k + 1, n))

\* the window without its limit of 120 characters: window = T[m.end():]
AnchorWindow_unbounded(T, e) == Slice(T, e - 1, Len(T))

\* window = T[m.end(): m.end() + 120], e the position after the label
AnchorWindow(T, e) == Slice(T, e - 1, e - 1 + WindowLen)

\* the body of the loop with the token step ahead of the strict search
TryAnchorWindow_tokens_first(window) ==
    LET m_strict == StrictSearch(window)
    IN  FoundOr(FirstCleaned(Tokenish(window), 1, TokenTries), CONF_ANCHOR_TOKEN,
                IF m_strict # 0
                THEN Found(upper(Group0(window, m_strict)), CONF_ANCHOR_STRICT)
                ELSE NotFound)

\* the body of the loop with the loose search and repair ahead of the
\* strict search
TryAnchorWindow_loose_first(window) ==
    LET m_strict == StrictSearch(window)
        m_loose  == LooseSearch(window)
    IN  FoundOr(IF m_loose # 0
                THEN clean_and_validate(Group0(window, m_loose))
                ELSE None,
                CONF_ANCHOR_LOOSE,
                IF m_strict # 0
                THEN Found(upper(Group0(window, m_strict)), CONF_ANCHOR_STRICT)
                ELSE FoundOr(FirstCleaned(Tokenish(window), 1, TokenTries),
                             CONF_ANCHOR_TOKEN, NotFound))

\* the body of the loop over the labels, lines 196-214
TryAnchorWindow(window) ==
    LET m_strict == StrictSearch(window)
        m_loose  == LooseSearch(window)
    IN  IF m_strict # 0
        THEN Found(upper(Group0(window, m_strict)), CONF_ANCHOR_STRICT)
        ELSE FoundOr(IF m_loose # 0
                     THEN clean_and_validate(Group0(window, m_loose))
                     ELSE None,
                     CONF_ANCHOR_LOOSE,
                     FoundOr(FirstCleaned(Tokenish(window), 1, TokenTries),
                             CONF_ANCHOR_TOKEN, NotFound))

RECURSIVE AnchorLoop(_, _, _)
\* for m in ANCHOR_RE.finditer(T), from the k-th label on
AnchorLoop(T, ends, k) ==
    IF k > Len(ends) THEN NotFound
    ELSE OrElse(TryAnchorWindow(AnchorWindow(T, ends[k])),
                AnchorLoop(T, ends, k + 1))

RECURSIVE LooseFindAllFrom(_, _, _)
\* LOOSE_8_RE.findall(T) from position p: matches not overlapping; hits:
\* where the pattern matches
LooseFindAllFrom(s, hits, p) ==
    LET next == {q \in hits : q >= p}
        q    == MinOf(next)
    IN  IF next = {} THEN <<>>
        ELSE <<Group0(s, q)>> \o LooseFindAllFrom(s, hits, q + PinLen)

LooseFindAll(s) ==
    LooseFindAllFrom(s, {p \in 1..(Len(s) - PinLen + 1) : LOOSE_8_RE(s, p)}, 1)

\* T.find(w): the 0-based offset of the first occurrence, -1 for none
Find(T, w) ==
    LET at == {i \in 1..(Len(T) - Len(w) + 1) : SubSeq(T, i, i + Len(w) - 1) = w}
    IN  IF at = {} THEN -1 ELSE MinOf(at) - 1

\* "NMC" in T[max(0, idx - 80): idx + 80]
NmcNearby(T, idx) ==
    Find(Slice(T, Max(0, idx - VicinityLen), idx + VicinityLen), W_NMC) # -1

RECURSIVE NearKeywordLoop(_, _, _)
\* lines 225-232: the first candidate with "NMC" nearby that cleans
NearKeywordLoop(T, cands, k) ==
    IF k > Len(cands) THEN None
    ELSE LET idx == Find(T, upper(cands[k]))
         IN  IF idx # -1 /\ NmcNearby(T, idx)
             THEN PinOr(clean_and_validate(cands[k]),
                        NearKeywordLoop(T, cands, k + 1))
             ELSE NearKeywordLoop(T, cands, k + 1)

\* steps 2 and 3 with the last direct match of the text taken, not the first
GlobalSearch_last_direct(T) ==
    LET hits == {p \in 1..(Len(T) - PinLen + 1) : STRICT_NMC_RE(T, p)}
        last == CHOOSE p \in hits : \A q \in hits : q <= p
        cands == LooseFindAll(T)
    IN  IF hits # {} THEN Found(upper(Group0(T, last)), CONF_GLOBAL_STRICT)
        ELSE FoundOr(NearKeywordLoop(T, cands, 1), CONF_GLOBAL_NMC,
                     FoundOr(FirstCleaned(cands, 1, Len(cands)),
                             CONF_GLOBAL_LOOSE, NotFound))

\* steps 2 and 3, lines 216-239
GlobalSearch(T) ==
    LET m2    == StrictSearch(T)
        cands == LooseFindAll(T)
    IN  IF m2 # 0 THEN Found(upper(Group0(T, m2)), CONF_GLOBAL_STRICT)
        ELSE FoundOr(NearKeywordLoop(T, cands, 1), CONF_GLOBAL_NMC,
                     FoundOr(FirstCleaned(cands, 1, Len(cands)),
                             CONF_GLOBAL_LOOSE, NotFound))

\* _extract_from_text with the global search ahead of the labels
extract_from_text_global_first(txt) ==
    IF txt = <<>> THEN NotFound
    ELSE LET T == upper(txt)
         IN  OrElse(GlobalSearch(T), AnchorLoop(T, AnchorEnds(T), 1))

\* _extract_from_text
extract_from_text(txt) ==
    IF txt = <<>> THEN NotFound
    ELSE LET T == upper(txt)
         IN  OrElse(AnchorLoop(T, AnchorEnds(T), 1), GlobalSearch(T))

----------------------------------------------------------------------------
(* The inputs of the token-level functions.                                *)

\* identifiers of the official structure; the first three are the examples
\* of the source's header comment (line 26)
Pin23 == <<"2","3","B","0","3","6","5","O">>

Pin09 == <<"0","9","B","0","1","1","2","E">>

Pin16 == <<"1","6","J","0","1","5","1","E">>

Pin10 == <<"1","0","B","5","1","5","8","O">>

Pin21 == <<"2","1","B","0","0","0","5","E">>

SamplePins == {Pin23, Pin09, Pin16, Pin10, Pin21}

\* how many characters of an identifier an input may have overwritten
MaxEdits == 2

\* how many characters an input may have inserted into an identifier
MaxInserts == 2

\* what a character is overwritten with: a digit, letters inside and
\* outside the month and country sets in either case, "_" and "-"
EditChars == {"7", "M", "O", "e", "m", "_", "-"}

\* punctuation and whitespace that may be inserted
PunctChars == {"-", " "}

RECURSIVE EditsOf(_, _)
\* the texts that differ from p in at most k positions
EditsOf(p, k) ==
    IF k = 0 THEN {p}
    ELSE LET prev == EditsOf(p, k - 1)
         IN  prev \cup {[w EXCEPT ![i] = c] :
                           w \in prev, i \in 1..Len(p), c \in EditChars}

InsertAt(w, g, c) == SubSeq(w, 1, g) \o <<c>> \o SubSeq(w, g + 1, Len(w))

RECURSIVE InsertsOf(_, _)
\* the texts obtained from w by at most k insertions of punctuation
InsertsOf(w, k) ==
    IF k = 0 THEN {w}
    ELSE LET prev == InsertsOf(w, k - 1)
         IN  prev \cup UNION {{InsertAt(v, g, c) : g \in 0..Len(v), c \in PunctChars} :
                                 v \in prev}

\* p with the letters at the positions L in lower case
Lowered(p, L) == [i \in 1..Len(p) |-> IF i \in L THEN lower_char(p[i]) ELSE p[i]]

CaseVariants(p) == {Lowered(p, L) : L \in SUBSET LetterPositions}

\* what OCR reads a character as, by position: a digit read as a letter
\* in a digit position, a letter read as a digit in a letter position
Confusable(i, c) ==
    IF i \in DigitPositions
    THEN CASE c = "0" -> {"O"}
           [] c = "1" -> {"I", "L"}
           [] c = "5" -> {"S"}
           [] c = "8" -> {"B"}
           [] OTHER -> {}
    ELSE CASE c = "O" -> {"0"}
           [] c = "I" -> {"1"}
           [] c = "S" -> {"5"}
           [] c = "B" -> {"8"}
           [] OTHER -> {}

RECURSIVE MisreadPrefixes(_, _)
\* the first n characters of p, each kept or read as a confusable one
MisreadPrefixes(p, n) ==
    IF n = 0 THEN {<<>>}
    ELSE {Append(w, c) : w \in MisreadPrefixes(p, n - 1),
                         c \in {p[n]} \cup Confusable(n, p[n])}

Misreads(p) == MisreadPrefixes(p, Len(p))

\* text around a candidate: nothing, one character, a word, and a run
\* that reaches the scan limit
Prefixes ==
    {<<>>, <<"1">>, <<"X">>, <<"-">>, <<"P","I","N">>,
     [i \in 1..(ScanLimit - 1) |-> "X"], [i \in 1..ScanLimit |-> "X"]}

Suffixes == {<<>>, <<"X">>, <<" ">>, <<"0">>}

EditedInputs ==
    LET base == EditsOf(Pin23, MaxEdits)
        few  == EditsOf(Pin23, 1)
    IN  base
        \cup {SubSeq(w, 1, PinLen - 1) : w \in few}
        \cup {SubSeq(w, 2, PinLen) : w \in few}
        \cup {Append(w, c) : w \in few, c \in EditChars}
        \cup {<<c>> \o w : w \in few, c \in EditChars}

\* an identifier in any letter case with punctuation inserted
PunctuatedOf23 == UNION {InsertsOf(v, MaxInserts) : v \in CaseVariants(Pin23)}

PunctuatedOf16 == UNION {InsertsOf(v, MaxInserts) : v \in CaseVariants(Pin16)}

PunctuatedInputs == PunctuatedOf23 \cup PunctuatedOf16

MisreadInputs == UNION {Misreads(p) : p \in SamplePins}

SurroundedInputs ==
    {pre \o w \o suf :
        pre \in Prefixes, suf \in Suffixes,
        w \in Misreads(Pin23) \cup Misreads(Pin09) \cup Misreads(Pin21)}

TokenInputs ==
    {<<>>} \cup EditedInputs \cup PunctuatedInputs \cup MisreadInputs
           \cup SurroundedInputs

----------------------------------------------------------------------------
(* The token-level functions, each applied to every input.                 *)

NoRet == [val |-> None, flag |-> FALSE, conf |-> 0]

\* the record extract_nmc_pin returns when nothing was found
FailureRecord == [ok |-> FALSE, nmc_pin |-> None, confidence |-> 0]

\* no call of extract_nmc_pin is under way
CallIdle ==
    /\ pc = "idle"
    /\ client = FALSE
    /\ text_pages = 0
    /\ image_pages = 0
    /\ model_fast = ""
    /\ model_strong = ""
    /\ path_suffix = <<>>
    /\ doc_pages = 0
    /\ page = 0
    /\ combined_parts = <<>>
    /\ text = <<>>
    /\ images = 0
    /\ failed = {}
    /\ trace = <<>>
    /\ result = FailureRecord

\* the locals of a call of extract_nmc_pin that has not started
FreshLocals ==
    [pc |-> "entry", path_suffix |-> <<>>, doc_pages |-> 0, page |-> 0,
     combined_parts |-> <<>>, text |-> <<>>, images |-> 0, failed |-> {},
     trace |-> <<>>, result |-> FailureRecord]

\* there is no second call
PoolIdle ==
    /\ running = 1
    /\ saved = [FreshLocals EXCEPT !.pc = "idle"]

\* the record of the driver before it has returned
NoRunResult == [ok |-> FALSE, pdf_path |-> "", error |-> "", stage |-> ""]

NoFailure == [prefix |-> "", snap_error |-> "", err_error |-> "", stage |-> ""]

\* no call of run_nmc_check_and_download_pdf is under way
RunnerIdle ==
    /\ rpc = "idle"
    /\ rpin = <<>>
    /\ out_dir_ok = TRUE
    /\ stage = ""
    /\ observed = <<>>
    /\ locator = 0
    /\ downloaded = "none"
    /\ pending = NoFailure
    /\ snap = ""
    /\ run_result = NoRunResult

\* no request is being handled
AppIdle ==
    /\ apc = "idle"
    /\ route = ""
    /\ payload = None
    /\ extracted = FailureRecord
    /\ driver_calls = <<>>
    /\ response = ""

RestIdle == PoolIdle /\ RunnerIdle /\ AppIdle

TokenInit ==
    /\ fn = "input"
    /\ arg \in TokenInputs
    /\ ret = NoRet
    /\ CallIdle
    /\ RestIdle

CallNormalize ==
    /\ fn = "input"
    /\ fn' = "normalize_token"
    /\ ret' = [NoRet EXCEPT !.val = normalize_token(arg)]
    /\ UNCHANGED <<arg, callVars, restVars>>

\* the callers pass 8 characters only (lines 120-123 and 130)
CallFix ==
    /\ fn = "input"
    /\ Len(arg) = PinLen
    /\ fn' = "fix_by_position"
    /\ ret' = [NoRet EXCEPT !.val = fix_by_position(arg)]
    /\ UNCHANGED <<arg, callVars, restVars>>

CallValidate ==
    /\ fn = "input"
    /\ fn' = "validate_strict"
    /\ ret' = [NoRet EXCEPT !.flag = validate_strict(arg)]
    /\ UNCHANGED <<arg, callVars, restVars>>

CallClean ==
    /\ fn = "input"
    /\ fn' = "clean_and_validate"
    /\ ret' = [NoRet EXCEPT !.val = clean_and_validate(arg)]
    /\ UNCHANGED <<arg, callVars, restVars>>

TokenNext == CallNormalize \/ CallFix \/ CallValidate \/ CallClean

SpecToken == TokenInit /\ [][TokenNext]_vars

----------------------------------------------------------------------------
(* The inputs of _extract_from_text: texts of at most MaxSegs segments,    *)
(* each an item followed by a separator.                                   *)

\* how many segments a text may have
MaxSegs == 3

\* "NMC PIN:"
LabelNmcPin == W_NMC \o <<" ">> \o W_PIN \o <<":">>

\* "Registration Number"
LabelReg ==
    <<"R","e","g","i","s","t","r","a","t","i","o","n"," ","N","u","m","b","e","r">>

\* 09B0112E with two digits read as letters
Noisy09 == <<"O","9","B","O","1","1","2","E">>

\* of the loose structure, not of the strict one
Loose23 == <<"2","3","M","0","3","6","5","X">>

\* "additional textual content": three runs of 7 to 12 letters
Additional ==
    <<"a","d","d","i","t","i","o","n","a","l"," ","t","e","x","t","u","a","l"," ",
      "c","o","n","t","e","n","t">>

\* punctuation filling all of a window but the last 8 characters
Dots == [i \in 1..(WindowLen - PinLen) |-> "."]

Labels == {LabelNmcPin, LabelReg}

Identifiers == {Pin23, Pin16}

Words == {Noisy09, Loose23, Additional}

\* a label is followed by nothing, a blank or the dots; an identifier, and
\* the misread one, by nothing (glued to what follows) or a blank; a word
\* by a blank
Segments ==
    {it \o sep : it \in Labels, sep \in {<<>>, <<" ">>, Dots}}
    \cup {it \o sep : it \in Identifiers \cup {Noisy09}, sep \in {<<>>, <<" ">>}}
    \cup {it \o <<" ">> : it \in Words}

RECURSIVE Concat(_, _)
\* the segments segs[k..] one after the other
Concat(segs, k) ==
    IF k > Len(segs) THEN <<>> ELSE segs[k] \o Concat(segs, k + 1)

\* the text is any sequence of at most MaxSegs segments
TextInit ==
    /\ fn = "input"
    /\ \E n \in 0..MaxSegs : \E segs \in [1..n -> Segments] : arg = Concat(segs, 1)
    /\ ret = NoRet
    /\ CallIdle
    /\ RestIdle

CallExtractFromText ==
    /\ fn = "input"
    /\ fn' = "extract_from_text"
    /\ ret' = extract_from_text(arg)
    /\ UNCHANGED <<arg, callVars, restVars>>

TextNext == CallExtractFromText

SpecText == TextInit /\ [][TextNext]_vars

----------------------------------------------------------------------------
(* extract_nmc_pin: one call, stepped from one collaborator to the next.   *)
(* The collaborators (the PDF reader, the renderer, the file system, the   *)
(* vision model) answer with any value of a small catalogue, or raise.     *)

\* the most pages a document of the model has
MaxPages == 2

NMC_PDF_TEXT_PAGES_DEFAULT == 8

NMC_PDF_IMAGE_PAGES_DEFAULT == 4

\* values of the environment for the two page limits
TextPageSettings == {0, 1, NMC_PDF_TEXT_PAGES_DEFAULT}

ImagePageSettings == {0, NMC_PDF_IMAGE_PAGES_DEFAULT}

MODEL_FAST_DEFAULT == "gemini-2.0-flash"

MODEL_STRONG_DEFAULT == "gemini-2.5-pro"

CONF_FAST == 90

CONF_STRONG == 93

PdfSuffix == <<".","p","d","f">>

ImageSuffixes ==
    { <<".","p","n","g">>, <<".","j","p","g">>, <<".","j","p","e","g">>,
      <<".","w","e","b","p">> }

\* path.suffix of the files of the model
PathSuffixes ==
    { PdfSuffix, <<".","P","D","F">>, <<".","p","n","g">>, <<".","J","p","g">>,
      <<".","j","p","e","g">>, <<".","w","e","b","p">>, <<".","t","x","t">>,
      <<>> }

Pin16Lower == lower(Pin16)

\* what a page, or a text file, may hold
PageTexts ==
    { <<>>, LabelNmcPin, Noisy09, Pin16Lower, Additional,
      LabelNmcPin \o <<" ">> \o Pin23 }

\* what a model may answer: the identifier verbatim, in lower case between
\* blanks, inside a sentence, misread, no identifier, nothing
VisionResponses ==
    { Pin16,
      <<" ">> \o Pin16Lower \o <<"\n">>,
      <<"T","h","e"," ","P","I","N"," ","i","s"," ">> \o Pin23 \o <<".">>,
      Noisy09,
      Additional,
      <<>> }

MaxOf(S) == CHOOSE x \in S : \A y \in S : x >= y

\* str.strip()
Strip(s) ==
    LET keep == {i \in 1..Len(s) : s[i] \notin SpaceChar}
    IN  IF keep = {} THEN <<>> ELSE SubSeq(s, MinOf(keep), MaxOf(keep))

RECURSIVE JoinFrom(_, _)
JoinFrom(parts, k) ==
    IF k > Len(parts) THEN <<>>
    ELSE IF k = Len(parts) THEN parts[k]
    ELSE parts[k] \o <<"\n">> \o JoinFrom(parts, k + 1)

\* "\n".join(parts)
Join(parts) == JoinFrom(parts, 1)

\* every text a call of the model hands to _extract_from_text: a page, a
\* file, the pages of a document joined
SearchedTexts ==
    PageTexts \cup
    UNION { {Join(parts) : parts \in [1..n -> PageTexts \ {<<>>}]} : n \in 0..MaxPages }

\* _extract_from_text on each of these texts, computed once
TextStrategy == [t \in SearchedTexts |-> extract_from_text(t)]

\* {"ok": True, "nmc_pin": pin, "confidence": {"nmc_pin": conf}}
OkRecord(pin, conf) == [ok |-> TRUE, nmc_pin |-> pin, confidence |-> conf]

\* the record of the text scan with "" returned in place of None
OtherFileResult_empty_string(r) ==
    [ok |-> r.val # None,
     nmc_pin |-> IF r.val = None THEN <<>> ELSE r.val,
     confidence |-> r.conf]

\* {"ok": bool(pin4), "nmc_pin": pin4, "confidence": {"nmc_pin": conf4}}
OtherFileResult(r) ==
    [ok |-> r.val # None, nmc_pin |-> r.val, confidence |-> r.conf]

\* the answer of a model taken as it is
GeminiPin_unvalidated(txt) == IF txt = <<>> THEN None ELSE txt

\* pin = _clean_and_validate(txt)
GeminiPin(txt) == clean_and_validate(txt)

\* 0.90 if model == GEMINI_MODEL_FAST else 0.93
GeminiConf(model) == IF model = model_fast THEN CONF_FAST ELSE CONF_STRONG

\* a failure of the model call that is not caught
GeminiExcept_uncaught(next) == "raised"

\* except Exception: continue
GeminiExcept(next) == next

\* _gemini_extract gives up before any call
GeminiSkips(n) == ~client \/ n = 0

\* the slice of the pages without the minimum of one page
PageLimit_no_minimum == Min(doc_pages, text_pages)

\* pdf.pages[:max(1, NMC_PDF_TEXT_PAGES)]
PageLimit == Min(doc_pages, Max(1, text_pages))

\* the number of pages rendered without the minimum of one page
ImageLimit_no_minimum == Min(image_pages, doc_pages)

\* range(min(max_pages, doc.page_count)) with max_pages = max(1, NMC_PDF_IMAGE_PAGES)
ImageLimit == Min(Max(1, image_pages), doc_pages)

Step(name, at, pin) == [step |-> name, at |-> at, pin |-> pin]

\* the module has been imported and extract_nmc_pin is called
CallStart ==
    /\ fn = "idle"
    /\ arg = <<>>
    /\ ret = NoRet
    /\ pc = "entry"
    /\ client \in BOOLEAN
    /\ text_pages \in TextPageSettings
    /\ image_pages \in ImagePageSettings
    /\ model_fast = MODEL_FAST_DEFAULT
    /\ model_strong \in {MODEL_STRONG_DEFAULT, MODEL_FAST_DEFAULT}
    /\ path_suffix = <<>>
    /\ doc_pages = 0
    /\ page = 0
    /\ combined_parts = <<>>
    /\ text = <<>>
    /\ images = 0
    /\ failed = {}
    /\ trace = <<>>
    /\ result = FailureRecord

Init == CallStart /\ RestIdle

config == <<client, text_pages, image_pages, model_fast, model_strong>>

\* path = Path(file_path) and the choice of the branch
Entry ==
    /\ pc = "entry"
    /\ \E suf \in PathSuffixes :
        /\ path_suffix' = suf
        /\ pc' = IF lower(suf) = PdfSuffix THEN "pdf_open"
                 ELSE IF lower(suf) \in ImageSuffixes THEN "image_file"
                 ELSE "other_file"
    /\ UNCHANGED <<harnessVars, restVars, config, doc_pages, page, combined_parts, text,
                   images, failed, trace, result>>

\* pdfplumber.open: the document opens, or the call raises
PdfOpen ==
    /\ pc = "pdf_open"
    /\ \E n \in 1..MaxPages : doc_pages' = n
    /\ \/ /\ pc' = "pdf_page"
          /\ UNCHANGED <<text, failed>>
       \/ /\ failed' = failed \cup {"open"}
          /\ text' = <<>>
          /\ pc' = "pdf_text"
    /\ UNCHANGED <<harnessVars, restVars, config, path_suffix, page, combined_parts,
                   images, trace, result>>

\* one turn of the loop over the pages
PdfPage ==
    /\ pc = "pdf_page"
    /\ page < PageLimit
    /\ \/ /\ failed' = failed \cup {"extract_text"}
          /\ text' = <<>>
          /\ pc' = "pdf_text"
          /\ UNCHANGED <<page, combined_parts, trace, result>>
       \/ \E t \in PageTexts : \E r \in {TextStrategy[t]} :
                /\ page' = page + 1
                /\ IF t = <<>>
                   THEN UNCHANGED <<pc, combined_parts, trace, result>>
                   ELSE /\ trace' = Append(trace, Step("page", page + 1, r.val))
                        /\ IF r.val # None
                           THEN /\ result' = OkRecord(r.val, r.conf)
                                /\ pc' = "returned"
                                /\ UNCHANGED combined_parts
                           ELSE /\ combined_parts' = Append(combined_parts, t)
                                /\ UNCHANGED <<pc, result>>
                /\ UNCHANGED <<text, failed>>
    /\ UNCHANGED <<harnessVars, restVars, config, path_suffix, doc_pages, images>>

\* the loop has ended: text = "\n".join(combined_parts)
PdfJoin ==
    /\ pc = "pdf_page"
    /\ page >= PageLimit
    /\ text' = Join(combined_parts)
    /\ pc' = "pdf_text"
    /\ UNCHANGED <<harnessVars, restVars, config, path_suffix, doc_pages, page,
                   combined_parts, images, failed, trace, result>>

\* pin, conf = _extract_from_text(text)
PdfText ==
    /\ pc = "pdf_text"
    /\ \E r \in {TextStrategy[text]} :
           /\ trace' = Append(trace, Step("text", 0, r.val))
           /\ IF r.val # None
              THEN /\ result' = OkRecord(r.val, r.conf)
                   /\ pc' = "returned"
              ELSE /\ pc' = "pdf_images"
                   /\ UNCHANGED result
    /\ UNCHANGED <<harnessVars, restVars, config, path_suffix, doc_pages, page,
                   combined_parts, text, images, failed>>

\* imgs = _pdf_to_images(...) and the entry of _gemini_extract(imgs)
PdfImages ==
    /\ pc = "pdf_images"
    /\ \E n \in 0..ImageLimit :
        /\ images' = n
        /\ failed' = IF n < ImageLimit THEN failed \cup {"render"} ELSE failed
        /\ IF GeminiSkips(n)
           THEN /\ result' = FailureRecord
                /\ pc' = "returned"
           ELSE /\ pc' = "gemini_fast"
                /\ UNCHANGED result
    /\ UNCHANGED <<harnessVars, restVars, config, path_suffix, doc_pages, page,
                   combined_parts, text, trace>>

\* img = _file_to_image(path) and the entry of _gemini_extract([img])
ImageFile ==
    /\ pc = "image_file"
    /\ \/ /\ images' = 1
          /\ IF GeminiSkips(1)
             THEN /\ result' = FailureRecord
                  /\ pc' = "returned"
             ELSE /\ pc' = "gemini_fast"
                  /\ UNCHANGED result
          /\ UNCHANGED failed
       \/ /\ failed' = failed \cup {"read_bytes"}
          /\ pc' = "other_file"
          /\ UNCHANGED <<images, result>>
    /\ UNCHANGED <<harnessVars, restVars, config, path_suffix, doc_pages, page,
                   combined_parts, text, trace>>

\* the first turn of the loop over the models: GEMINI_MODEL_FAST
GeminiFast ==
    /\ pc = "gemini_fast"
    /\ \/ /\ failed' = failed \cup {"gemini_fast"}
          /\ trace' = Append(trace, Step("gemini_fast", 0, None))
          /\ pc' = GeminiExcept("gemini_strong")
          /\ UNCHANGED result
       \/ \E resp \in VisionResponses : \E pin \in {GeminiPin(Strip(resp))} :
                /\ trace' = Append(trace, Step("gemini_fast", 0, pin))
                /\ IF pin # None
                   THEN /\ result' = OkRecord(pin, GeminiConf(model_fast))
                        /\ pc' = "returned"
                   ELSE /\ pc' = "gemini_strong"
                        /\ UNCHANGED result
                /\ UNCHANGED failed
    /\ UNCHANGED <<harnessVars, restVars, config, path_suffix, doc_pages, page,
                   combined_parts, text, images>>

\* the second turn: GEMINI_MODEL_STRONG, and the return of the caller
GeminiStrong ==
    /\ pc = "gemini_strong"
    /\ \/ /\ failed' = failed \cup {"gemini_strong"}
          /\ trace' = Append(trace, Step("gemini_strong", 0, None))
          /\ pc' = GeminiExcept("returned")
          /\ result' = FailureRecord
       \/ \E resp \in VisionResponses : \E pin \in {GeminiPin(Strip(resp))} :
                /\ trace' = Append(trace, Step("gemini_strong", 0, pin))
                /\ result' = IF pin # None
                             THEN OkRecord(pin, GeminiConf(model_strong))
                             ELSE FailureRecord
                /\ pc' = "returned"
                /\ UNCHANGED failed
    /\ UNCHANGED <<harnessVars, restVars, config, path_suffix, doc_pages, page,
                   combined_parts, text, images>>

\* other types: path.read_text and the text scan
OtherFile ==
    /\ pc = "other_file"
    /\ \E t \in PageTexts :
        /\ \/ text' = t /\ UNCHANGED failed
           \/ text' = <<>> /\ t = <<>> /\ failed' = failed \cup {"read_text"}
        /\ \E r \in {TextStrategy[t]} :
            /\ trace' = Append(trace, Step("text", 0, r.val))
            /\ result' = OtherFileResult(r)
    /\ pc' = "returned"
    /\ UNCHANGED <<harnessVars, restVars, config, path_suffix, doc_pages, page,
                   combined_parts, images>>

Next ==
    \/ Entry
    \/ PdfOpen
    \/ PdfPage
    \/ PdfJoin
    \/ PdfText
    \/ PdfImages
    \/ ImageFile
    \/ GeminiFast
    \/ GeminiStrong
    \/ OtherFile

Spec == Init /\ [][Next]_vars

----------------------------------------------------------------------------
(* Two calls of extract_nmc_pin that run concurrently.  The names of the   *)
(* function body are local to each call; the configuration read at import  *)
(* and the client are the module's, and so common to both.  The call that  *)
(* runs holds the variables of the machine above; a switch suspends it     *)
(* and resumes the other one.                                              *)

\* the local names of the call that runs
Locals ==
    [pc |-> pc, path_suffix |-> path_suffix, doc_pages |-> doc_pages,
     page |-> page, combined_parts |-> combined_parts, text |-> text,
     images |-> images, failed |-> failed, trace |-> trace, result |-> result]

\* the call resumes on a list combined_parts that is the module's, not its own
Resume_shared_parts(l) ==
    /\ pc' = l.pc
    /\ path_suffix' = l.path_suffix
    /\ doc_pages' = l.doc_pages
    /\ page' = l.page
    /\ UNCHANGED combined_parts
    /\ text' = l.text
    /\ images' = l.images
    /\ failed' = l.failed
    /\ trace' = l.trace
    /\ result' = l.result

\* the suspended call resumes with its own locals
Resume(l) ==
    /\ pc' = l.pc
    /\ path_suffix' = l.path_suffix
    /\ doc_pages' = l.doc_pages
    /\ page' = l.page
    /\ combined_parts' = l.combined_parts
    /\ text' = l.text
    /\ images' = l.images
    /\ failed' = l.failed
    /\ trace' = l.trace
    /\ result' = l.result

\* a call that has returned takes no step; the second call is followed
\* through the branch of the other file types, and stays suspended after
\* its first step in the branches of the PDF and of the image
CanRun(call, l) ==
    /\ l.pc # "returned"
    /\ call = 2 => l.pc \in {"entry", "other_file"}

\* the module is configured with a client and the default page limits
PoolInit ==
    /\ CallStart
    /\ RunnerIdle
    /\ AppIdle
    /\ client
    /\ text_pages = NMC_PDF_TEXT_PAGES_DEFAULT
    /\ image_pages = NMC_PDF_IMAGE_PAGES_DEFAULT
    /\ running = 1
    /\ saved = FreshLocals

\* the scheduler suspends the call that runs and resumes the other one
Switch ==
    /\ CanRun(3 - running, saved)
    /\ running' = 3 - running
    /\ saved' = Locals
    /\ Resume(saved)
    /\ UNCHANGED <<harnessVars, config, runnerVars, appVars>>

\* a step of the call that runs
Run ==
    /\ CanRun(running, Locals)
    /\ Next

PoolNext ==
    \/ Run
    \/ Switch

SpecPool == PoolInit /\ [][PoolNext]_vars

----------------------------------------------------------------------------
(* run_nmc_check_and_download_pdf (nmc_runner.py).  The browser, the page  *)
(* and the file system are collaborators: each awaited call succeeds or    *)
(* raises, each check finds or does not find.  A path is a string, "" is   *)
(* the path that is missing.                                               *)

\* the arguments nmc_pin of the calls of the model
RunnerInputs == {Pin23, <<" ">> \o Pin16 \o <<" ">>, Loose23, <<>>, None}

\* (nmc_pin or "").strip()
StripOrEmpty(p) == IF p = None THEN <<>> ELSE Strip(p)

\* the failures that are documented by a snapshot, with the prefix of the
\* snapshot, the error of the record with the snapshot, the error of the
\* record with the error PDF, and the stage of the record
CaptchaOnLanding ==
    [prefix |-> "NMC-captcha", snap_error |-> "CAPTCHA widget detected",
     err_error |-> "CAPTCHA widget detected", stage |-> "captcha"]

FillFailed ==
    [prefix |-> "NMC-no-pin-field",
     snap_error |-> "Could not locate/fill PIN input field",
     err_error |-> "PIN fill failed", stage |-> "fill"]

CaptchaAfterSearch ==
    [prefix |-> "NMC-captcha-after-search", snap_error |-> "CAPTCHA after search",
     err_error |-> "CAPTCHA after search", stage |-> "captcha"]

NoViewDetails ==
    [prefix |-> "NMC-results-not-found",
     snap_error |-> "Could not find 'View details' after search",
     err_error |-> "No view details", stage |-> "results"]

NoDownload ==
    [prefix |-> "NMC-details",
     snap_error |-> "Could not trigger official Download PDF; returned page snapshot PDF instead.",
     err_error |-> "Download failed", stage |-> "download"]

\* download_locators
DownloadLocators == 1..5

ErrorPdfPath == "NMC-Error.pdf"

OfficialPdfPath == "nmc-check.pdf"

RunRecord(ok, path, error, st) ==
    [ok |-> ok, pdf_path |-> path, error |-> error, stage |-> st]

\* the handler of the unexpected exception writes the error PDF
WhenCaught == "handler"

RunnerInit ==
    /\ fn = "idle"
    /\ arg = <<>>
    /\ ret = NoRet
    /\ CallIdle
    /\ PoolIdle
    /\ AppIdle
    /\ rpc = "start"
    /\ rpin \in RunnerInputs
    /\ out_dir_ok \in BOOLEAN
    /\ stage = ""
    /\ observed = <<>>
    /\ locator = 0
    /\ downloaded = "none"
    /\ pending = NoFailure
    /\ snap = ""
    /\ run_result = NoRunResult

runnerFrame == <<harnessVars, callVars, poolVars, appVars>>

\* pin = (nmc_pin or "").strip(); _ensure_dir(out_path_dir); stage = "start"
RunStart ==
    /\ rpc = "start"
    /\ rpin' = StripOrEmpty(rpin)
    /\ IF out_dir_ok
       THEN rpc' = "launch" /\ stage' = "start"
       ELSE rpc' = "raised" /\ UNCHANGED stage
    /\ UNCHANGED <<runnerFrame, out_dir_ok, observed, locator, downloaded,
                   pending, snap, run_result>>

\* async_playwright, the browser, the context and the page; stage = "landing"
Launch ==
    /\ rpc = "launch"
    /\ \/ rpc' = "landing" /\ stage' = "landing"
       \/ rpc' = WhenCaught /\ UNCHANGED stage
    /\ UNCHANGED <<runnerFrame, rpin, out_dir_ok, observed, locator,
                   downloaded, pending, snap, run_result>>

\* page.goto and the cookie banners
Landing ==
    /\ rpc = "landing"
    /\ rpc' \in {"captcha", WhenCaught}
    /\ UNCHANGED <<runnerFrame, rpin, out_dir_ok, stage, observed, locator,
                   downloaded, pending, snap, run_result>>

\* _detect_captcha_widget before the PIN is filled; stage = "fill"
CaptchaCheck ==
    /\ rpc = "captcha"
    /\ \/ /\ pending' = CaptchaOnLanding
          /\ rpc' = "snapshot"
          /\ UNCHANGED stage
       \/ /\ stage' = "fill"
          /\ rpc' = "fill"
          /\ UNCHANGED pending
    /\ UNCHANGED <<runnerFrame, rpin, out_dir_ok, observed, locator,
                   downloaded, snap, run_result>>

\* ok_fill, observed = await _fill_pin(page, pin); stage = "search"
Fill ==
    /\ rpc = "fill"
    /\ \/ /\ observed' = rpin
          /\ stage' = "search"
          /\ rpc' = "search"
          /\ UNCHANGED pending
       \/ /\ observed' = <<>>
          /\ pending' = FillFailed
          /\ rpc' = "snapshot"
          /\ UNCHANGED stage
       \/ /\ rpc' = WhenCaught
          /\ UNCHANGED <<observed, stage, pending>>
    /\ UNCHANGED <<runnerFrame, rpin, out_dir_ok, locator, downloaded, snap,
                   run_result>>

\* _click_search, the Enter key, and the wait for the results
Search ==
    /\ rpc = "search"
    /\ rpc' \in {"captcha_after_search", WhenCaught}
    /\ UNCHANGED <<runnerFrame, rpin, out_dir_ok, stage, observed, locator,
                   downloaded, pending, snap, run_result>>

\* _detect_captcha_widget after the search; stage = "results"
CaptchaAgain ==
    /\ rpc = "captcha_after_search"
    /\ \/ /\ pending' = CaptchaAfterSearch
          /\ rpc' = "snapshot"
          /\ UNCHANGED stage
       \/ /\ stage' = "results"
          /\ rpc' = "results"
          /\ UNCHANGED pending
    /\ UNCHANGED <<runnerFrame, rpin, out_dir_ok, observed, locator,
                   downloaded, snap, run_result>>

\* 'View details' is awaited and clicked; stage = "download"
Results ==
    /\ rpc = "results"
    /\ \/ /\ stage' = "download"
          /\ rpc' = "download"
          /\ locator' = 1
          /\ UNCHANGED pending
       \/ /\ pending' = NoViewDetails
          /\ rpc' = "snapshot"
          /\ UNCHANGED <<stage, locator>>
       \/ /\ rpc' = WhenCaught
          /\ UNCHANGED <<stage, locator, pending>>
    /\ UNCHANGED <<runnerFrame, rpin, out_dir_ok, observed, downloaded, snap,
                   run_result>>

\* one turn of the loop over download_locators: the control is missing or
\* none of the three attempts saves a file, or one of them does and the
\* loop ends; the file saved by the browser may be empty
DownloadTry ==
    /\ rpc = "download"
    /\ locator \in DownloadLocators
    /\ \/ /\ locator' = locator + 1
          /\ rpc' = IF locator + 1 \in DownloadLocators THEN "download" ELSE "check"
          /\ UNCHANGED downloaded
       \/ /\ downloaded' \in {"saved", "empty"}
          /\ rpc' = "check"
          /\ UNCHANGED locator
    /\ UNCHANGED <<runnerFrame, rpin, out_dir_ok, stage, observed, pending,
                   snap, run_result>>

\* if downloaded_path and downloaded_path.exists() and st_size > 0
DownloadCheck ==
    /\ rpc = "check"
    /\ IF downloaded = "saved"
       THEN \/ /\ run_result' = RunRecord(TRUE, OfficialPdfPath, "", "download")
               /\ rpc' = "returned"
               /\ UNCHANGED pending
            \/ /\ rpc' = WhenCaught
               /\ UNCHANGED <<run_result, pending>>
       ELSE \/ /\ pending' = NoDownload
               /\ rpc' = "snapshot"
               /\ UNCHANGED run_result
            \/ /\ downloaded = "empty"
               /\ rpc' = WhenCaught
               /\ UNCHANGED <<run_result, pending>>
    /\ UNCHANGED <<runnerFrame, rpin, out_dir_ok, stage, observed, locator,
                   downloaded, snap>>

\* snap = await _full_page_snapshot_pdf(...)
Snapshot ==
    /\ rpc = "snapshot"
    /\ \/ /\ snap' \in {pending.prefix, ""}
          /\ IF pending = NoDownload
             THEN rpc' = "close" /\ UNCHANGED run_result
             ELSE IF snap' # ""
             THEN /\ run_result' = RunRecord(FALSE, snap', pending.snap_error, pending.stage)
                  /\ rpc' = "returned"
             ELSE rpc' = "error_pdf" /\ UNCHANGED run_result
       \/ /\ rpc' = WhenCaught
          /\ UNCHANGED <<snap, run_result>>
    /\ UNCHANGED <<runnerFrame, rpin, out_dir_ok, stage, observed, locator,
                   downloaded, pending>>

\* await context.close(); await browser.close() after the last snapshot
CloseAfterSnapshot ==
    /\ rpc = "close"
    /\ \/ IF snap # ""
          THEN /\ run_result' = RunRecord(FALSE, snap, pending.snap_error, pending.stage)
               /\ rpc' = "returned"
          ELSE rpc' = "error_pdf" /\ UNCHANGED run_result
       \/ /\ rpc' = WhenCaught
          /\ UNCHANGED run_result
    /\ UNCHANGED <<runnerFrame, rpin, out_dir_ok, stage, observed, locator,
                   downloaded, pending, snap>>

\* err = _error_pdf(...) where no snapshot could be made
ErrorPdf ==
    /\ rpc = "error_pdf"
    /\ \/ /\ run_result' = RunRecord(FALSE, ErrorPdfPath, pending.err_error, pending.stage)
          /\ rpc' = "returned"
       \/ /\ rpc' = WhenCaught
          /\ UNCHANGED run_result
    /\ UNCHANGED <<runnerFrame, rpin, out_dir_ok, stage, observed, locator,
                   downloaded, pending, snap>>

\* except Exception as e: err = _error_pdf(...), which may raise in turn
Handler ==
    /\ rpc = "handler"
    /\ \/ /\ run_result' = RunRecord(FALSE, ErrorPdfPath, "exception", "exception")
          /\ rpc' = "returned"
       \/ /\ rpc' = "raised"
          /\ UNCHANGED run_result
    /\ UNCHANGED <<runnerFrame, rpin, out_dir_ok, stage, observed, locator,
                   downloaded, pending, snap>>

RunnerNext ==
    \/ RunStart
    \/ Launch
    \/ Landing
    \/ CaptchaCheck
    \/ Fill
    \/ Search
    \/ CaptchaAgain
    \/ Results
    \/ DownloadTry
    \/ DownloadCheck
    \/ Snapshot
    \/ CloseAfterSnapshot
    \/ ErrorPdf
    \/ Handler

SpecRunner == RunnerInit /\ [][RunnerNext]_vars

----------------------------------------------------------------------------
(* The request handlers of app.py that invoke the driver: /run-pin with a  *)
(* PIN typed by the user, /run with an uploaded file.  extract_nmc_pin is  *)
(* the machine above; here its call is one step that gives one of the      *)
(* records that machine returns.                                           *)

Routes == {"/run", "/run-pin"}

\* payload.get("nmc_pin"): missing (None), empty, blank, an identifier in
\* lower case with blanks around it, an identifier, a loose candidate, a
\* word, 8 digits
Payloads ==
    {None, <<>>, <<" ", " ">>, <<" ">> \o Pin16Lower \o <<" ">>, Pin23, Loose23,
     <<"h", "e", "l", "l", "o">>, <<"1", "2", "3", "4", "5", "6", "7", "8">>}

\* the records extract_nmc_pin returns
ExtractedRecords ==
    {FailureRecord} \cup
    {OkRecord(p, c) : p \in {Pin23, Pin16, Pin09},
                      c \in {CONF_ANCHOR_STRICT, CONF_GLOBAL_STRICT, CONF_FAST}}

\* (x or "").strip().upper()
StripUpper(x) == upper(StripOrEmpty(x))

MissingPinPdf == "NMC-Error-Missing-PIN.pdf"

ExtractionPdf == "NMC-Error-Extraction.pdf"

InternalPdf == "NMC-Error-Internal.pdf"

AppInit ==
    /\ fn = "idle"
    /\ arg = <<>>
    /\ ret = NoRet
    /\ CallIdle
    /\ PoolIdle
    /\ RunnerIdle
    /\ apc = "request"
    /\ route \in Routes
    /\ payload \in IF route = "/run-pin" THEN Payloads ELSE {None}
    /\ extracted = FailureRecord
    /\ driver_calls = <<>>
    /\ response = ""

appFrame == <<harnessVars, callVars, poolVars>>

\* result = await run_nmc_check_and_download_pdf(nmc_pin=pin, out_dir=str(job_dir))
InvokeDriver(p) ==
    /\ driver_calls' = Append(driver_calls, p)
    /\ rpc' = "start"
    /\ rpin' = p
    /\ out_dir_ok' = TRUE
    /\ apc' = "driver"
    /\ UNCHANGED <<response, stage, observed, locator, downloaded, pending,
                   snap, run_result>>

\* the handler answers with an error PDF of its own
AnswerWith(name) ==
    /\ response' = name
    /\ apc' = "done"
    /\ UNCHANGED <<driver_calls, runnerVars>>

\* run_by_pin up to the call of the driver
RunByPin ==
    /\ apc = "request"
    /\ route = "/run-pin"
    /\ \E p \in {StripUpper(payload)} :
          IF p = <<>> THEN AnswerWith(MissingPinPdf) ELSE InvokeDriver(p)
    /\ UNCHANGED <<appFrame, route, payload, extracted>>

\* run_nmc up to the call of the driver
RunUpload ==
    /\ apc = "request"
    /\ route = "/run"
    /\ \E e \in ExtractedRecords :
          /\ extracted' = e
          /\ \E p \in {StripUpper(e.nmc_pin)} :
                IF p = <<>> THEN AnswerWith(ExtractionPdf) ELSE InvokeDriver(p)
    /\ UNCHANGED <<appFrame, route, payload>>

\* a step of the driver while the handler awaits it
Driver ==
    /\ apc = "driver"
    /\ RunnerNext

\* pdf_path = Path(result.get("pdf_path") or ""): the file is sent if it
\* exists, the internal error PDF otherwise
Respond ==
    /\ apc = "driver"
    /\ rpc = "returned"
    /\ response' \in {run_result.pdf_path, InternalPdf}
    /\ apc' = "done"
    /\ UNCHANGED <<appFrame, runnerVars, route, payload, extracted, driver_calls>>

\* the driver raised: the handler does not catch
DriverRaised ==
    /\ apc = "driver"
    /\ rpc = "raised"
    /\ apc' = "raised"
    /\ UNCHANGED <<appFrame, runnerVars, route, payload, extracted,
                   driver_calls, response>>

AppNext ==
    \/ RunByPin
    \/ RunUpload
    \/ Driver
    \/ Respond
    \/ DriverRaised

SpecApp == AppInit /\ [][AppNext]_vars

----------------------------------------------------------------------------
(* Properties of the token-level functions, checked under SpecToken.       *)

\* the official structure, letters in upper case: 2 digits, a letter of
\* A-L, 4 digits, a letter of {E,S,W,N,O}
IsIdentifier(s) ==
    /\ Len(s) = PinLen
    /\ \A i \in DigitPositions : s[i] \in Digit
    /\ s[3] \in MonthLetters
    /\ s[8] \in CountryLetters

\* the same structure with the two letters in either case
IsIdentifierAnyCase(s) ==
    /\ Len(s) = PinLen
    /\ \A i \in DigitPositions : s[i] \in Digit
    /\ upper_char(s[3]) \in MonthLetters
    /\ upper_char(s[8]) \in CountryLetters

\* w occurs in s as a run of consecutive characters
OccursIn(w, s) ==
    \E i \in 1..(Len(s) - Len(w) + 1) : SubSeq(s, i, i + Len(w) - 1) = w

\* C4 as stated: _validate_strict returns true for exactly the strings of
\* the structure 2 digits, letter A-L, 4 digits, letter of {E,S,W,N,O},
\* and false for every other string.
C4_ValidatorExactUpperCase ==
    fn = "validate_strict" => (ret.flag <=> IsIdentifier(arg))

\* C4 amended: _validate_strict returns true for exactly the strings of 8
\* characters that are 2 digits, a letter of A-L, 4 digits, a letter of
\* {E,S,W,N,O}, the two letters being accepted in either case, and false
\* for every other string.
C4_ValidatorExactAnyCase ==
    fn = "validate_strict" => (ret.flag <=> IsIdentifierAnyCase(arg))

\* the validator has accepted a string whose letters are in lower case
C4_Witness ==
    /\ fn = "validate_strict"
    /\ ret.flag
    /\ arg # upper(arg)

\* C5: normalization is idempotent, and normalizing a variant of a valid
\* identifier P that differs from P by letter case and by inserted
\* punctuation or whitespace yields P.
C5_NormalizeIdempotentCanonical ==
    fn = "normalize_token" =>
        /\ normalize_token(ret.val) = ret.val
        /\ arg \in PunctuatedOf23 => ret.val = Pin23
        /\ arg \in PunctuatedOf16 => ret.val = Pin16

\* a lower-case, punctuated variant of 16J0151E has been normalized
C5_Witness ==
    /\ fn = "normalize_token"
    /\ arg \in PunctuatedOf16
    /\ Len(arg) = PinLen + MaxInserts
    /\ arg # upper(arg)
    /\ ret.val = Pin16

\* C6: positional repair of a window obtained from a valid identifier P by
\* reading characters as their confusable counterparts yields P, and P
\* passes the validator.
C6_RepairCorrect ==
    fn = "fix_by_position" =>
        \A p \in SamplePins :
            arg \in Misreads(p) => ret.val = p /\ validate_strict(ret.val)

\* 10B5158O with every character misread has been repaired
C6_Witness ==
    /\ fn = "fix_by_position"
    /\ arg = <<"L","O","8","S","I","S","B","0">>
    /\ ret.val = Pin10

\* C7: when the normalized input holds a valid identifier as 8 consecutive
\* characters, _clean_and_validate returns a valid identifier that occurs
\* unmodified in the normalized input.
C7_DirectMatchAnywhereFirst ==
    (/\ fn = "clean_and_validate"
     /\ \E i \in 1..Len(normalize_token(arg)) :
            StrictShapeAt(normalize_token(arg), i))
    => /\ ret.val # None
       /\ validate_strict(ret.val)
       /\ OccursIn(ret.val, normalize_token(arg))

\* the 8 characters of s from offset o (counted from 0), repaired
RepairedWindow(s, o) == fix_by_position(SubSeq(s, o + 1, o + PinLen))

\* the offsets of the normalized text s at which the window repairs to a
\* valid identifier
RepairableOffsets(s) ==
    {o \in 0..(Len(s) - PinLen) : IsIdentifier(RepairedWindow(s, o))}

\* C19: the windowed repair of _clean_and_validate takes the windows of 8
\* characters of the normalized text in increasing start offset, offsets 0
\* to 15 at most, and returns the repaired form of the window of lowest
\* offset that validates; an identifier that can be repaired but starts at
\* offset 16 or later is not returned.
C19_WindowedRepairFirst16 ==
    LET s == normalize_token(arg)
        near == {o \in RepairableOffsets(s) : o <= 15}
    IN  fn = "clean_and_validate" =>
            IF near # {}
            THEN ret.val = RepairedWindow(s, MinOf(near))
            ELSE ret.val = None

\* 16 characters, then O9BO112E: the window that repairs to 09B0112E
\* starts at offset 16, no window before it validates, nothing is returned
C19_Witness ==
    LET s == normalize_token(arg)
    IN  /\ fn = "clean_and_validate"
        /\ 16 \in RepairableOffsets(s)
        /\ \A o \in RepairableOffsets(s) : o >= 16
        /\ SubSeq(s, 17, 24) # RepairedWindow(s, 16)
        /\ ret.val = None

----------------------------------------------------------------------------
(* Properties of _extract_from_text, checked under SpecText.               *)

\* the 8 characters at position i are not of the strict structure and
\* positional repair makes them a valid identifier
RepairableAt(T, i) ==
    /\ i >= 1
    /\ i + PinLen - 1 <= Len(T)
    /\ ~StrictShapeAt(T, i)
    /\ IsIdentifier(fix_by_position(SubSeq(T, i, i + PinLen - 1)))

\* pin stands in T, unmodified, as 8 characters of the strict structure
UnmodifiedIn(pin, T) ==
    \E i \in 1..(Len(T) - PinLen + 1) :
        StrictShapeAt(T, i) /\ SubSeq(T, i, i + PinLen - 1) = pin

\* the 8 characters at position i lie wholly within the 120 characters
\* that follow a label ending before position e
InWindow(i, e) == i >= e /\ i + PinLen - 1 <= e + 119

\* the positions of the valid identifiers that are complete tokens of T
DirectTokens(T) == {i \in 1..(Len(T) - PinLen + 1) : STRICT_NMC_RE(T, i)}

\* the positions of the complete tokens that only repair makes valid
RepairableTokens(T) ==
    {i \in 1..(Len(T) - PinLen + 1) :
        WordBoundary(T, i) /\ WordBoundary(T, i + PinLen) /\ RepairableAt(T, i)}

\* no 8 characters that only repair makes valid lie in a label's window
NoRepairableAfterLabel(T) ==
    LET ends == AnchorEnds(T)
    IN  \A k \in DOMAIN ends : \A i \in ends[k]..(ends[k] + 119) :
            ~(RepairableAt(T, i) /\ InWindow(i, ends[k]))

Unlabelled(T, j) ==
    LET ends == AnchorEnds(T)
    IN  \A k \in DOMAIN ends : ~(j >= ends[k] /\ j <= ends[k] + 119)

After120(T, e) == SubSeq(T, e, Min(Len(T), e + 119))

\* what C10 says a label's window gives: the direct match with 0.99, else
\* the first loose match if it validates after repair with 0.98, else the
\* first of the first three 7-12 character tokens that validates with 0.96
WindowOutcome(w) ==
    LET direct == {i \in 1..(Len(w) - PinLen + 1) : STRICT_NMC_RE(w, i)}
        loose  == {i \in 1..(Len(w) - PinLen + 1) : LOOSE_8_RE(w, i)}
        toks   == Tokenish(w)
        good   == {t \in 1..Min(Len(toks), 3) : clean_and_validate(toks[t]) # None}
        first  == SubSeq(w, MinOf(loose), MinOf(loose) + PinLen - 1)
    IN  IF direct # {}
        THEN [val |-> SubSeq(w, MinOf(direct), MinOf(direct) + PinLen - 1), conf |-> 99]
        ELSE IF loose # {} /\ clean_and_validate(first) # None
        THEN [val |-> clean_and_validate(first), conf |-> 98]
        ELSE IF good # {}
        THEN [val |-> clean_and_validate(toks[MinOf(good)]), conf |-> 96]
        ELSE [val |-> None, conf |-> 0]

NoLabelYields(T) ==
    LET ends == AnchorEnds(T)
    IN  \A k \in DOMAIN ends : WindowOutcome(After120(T, ends[k])).val = None

\* the positions of the loose candidates of T
LooseTokens(T) == {i \in 1..(Len(T) - PinLen + 1) : LOOSE_8_RE(T, i)}

\* the keyword NMC lies within the 80 characters before position i or the
\* 80 characters from it
KeywordWithin80(T, i) ==
    \E j \in Max(1, i - 80)..(Min(Len(T), i + 79) - 2) : SubSeq(T, j, j + 2) = W_NMC

\* C11: when no label gives a result, the first direct match of the whole
\* text is returned with 0.95; otherwise, of the loose candidates that
\* validate after repair, the first with NMC within 80 characters is
\* returned with 0.92, and one without it with 0.88 only when none with
\* the keyword validates; otherwise nothing is returned.
C11_GlobalStrategy ==
    LET T == upper(arg)
        direct == DirectTokens(T)
        valid == {i \in LooseTokens(T) :
                     clean_and_validate(SubSeq(T, i, i + PinLen - 1)) # None}
        near == {i \in valid : KeywordWithin80(T, i)}
    IN  (fn = "extract_from_text" /\ NoLabelYields(T)) =>
            IF direct # {}
            THEN /\ ret.val = SubSeq(T, MinOf(direct), MinOf(direct) + PinLen - 1)
                 /\ ret.conf = 95
            ELSE IF near # {}
            THEN /\ ret.val = clean_and_validate(SubSeq(T, MinOf(near), MinOf(near) + PinLen - 1))
                 /\ ret.conf = 92
            ELSE IF valid # {}
            THEN /\ ret.val = clean_and_validate(SubSeq(T, MinOf(valid), MinOf(valid) + PinLen - 1))
                 /\ ret.conf = 88
            ELSE ret.val = None /\ ret.conf = 0

\* a text with a label that gives nothing and two different identifiers:
\* the first of them has been returned by the global direct search
C11_Witness ==
    LET T == upper(arg)
        direct == DirectTokens(T)
    IN  /\ fn = "extract_from_text"
        /\ AnchorEnds(T) # <<>>
        /\ NoLabelYields(T)
        /\ \E i, j \in direct : i < j /\ SubSeq(T, i, i + 7) # SubSeq(T, j, j + 7)
        /\ ret.val = SubSeq(T, MinOf(direct), MinOf(direct) + PinLen - 1)
        /\ ret.conf = 95

\* C20: the positional repair leaves every loose candidate (2 digits, a
\* letter, 4 digits, a letter) as it is, and the loose candidates are
\* repaired only where the direct search of the same text found nothing;
\* so a loose candidate validates after repair only if it is a direct
\* match, _extract_from_text never returns 0.98, 0.92 or 0.88, and every
\* confidence it returns is 0.0, 0.95, 0.96 or 0.99.
C20_LooseTiersNeverYield ==
    LET T == upper(arg)
    IN  fn = "extract_from_text" =>
            /\ \A i \in LooseTokens(T) :
                  LET cand == SubSeq(T, i, i + PinLen - 1)
                  IN  /\ fix_by_position(cand) = cand
                      /\ clean_and_validate(cand) # None =>
                            /\ STRICT_NMC_RE(T, i)
                            /\ clean_and_validate(cand) = cand
                            /\ ret.conf \in {CONF_GLOBAL_STRICT, CONF_ANCHOR_TOKEN,
                                              CONF_ANCHOR_STRICT}
            /\ ret.conf \notin {98, 92, 88}
            /\ ret.conf \in {0, 95, 96, 99}
            /\ ret.conf = 0 <=> ret.val = None

\* 'NMC PIN: 23M0365X ': the loose candidate stands after the label and
\* next to the keyword NMC, its repair changes nothing and it does not
\* validate; nothing is returned
C20_Witness ==
    /\ fn = "extract_from_text"
    /\ arg = LabelNmcPin \o <<" ">> \o Loose23 \o <<" ">>
    /\ LooseTokens(upper(arg)) # {}
    /\ \A i \in LooseTokens(upper(arg)) : KeywordWithin80(upper(arg), i)
    /\ ret = NotFound

\* C21: every identifier that _extract_from_text returns from a direct
\* match (confidence 0.99 or 0.95) is a complete token of the upper-cased
\* text: the characters before and after it are not word characters, or
\* the text ends there; the cut of the window at the end of the label and
\* at 120 characters never makes a part of a longer run of letters and
\* digits an identifier.
C21_DirectMatchIsCompleteToken ==
    LET T == upper(arg)
    IN  (fn = "extract_from_text" /\ ret.conf \in {CONF_ANCHOR_STRICT, CONF_GLOBAL_STRICT}) =>
            \E i \in 1..(Len(T) - PinLen + 1) :
                /\ SubSeq(T, i, i + PinLen - 1) = ret.val
                /\ WordBoundary(T, i)
                /\ WordBoundary(T, i + PinLen)

----------------------------------------------------------------------------
(* Properties of extract_nmc_pin, checked under Spec.                      *)

Returned == pc = "returned"

\* the strategies that ran, in order
StepsRun == [i \in DOMAIN trace |-> trace[i].step]

\* no strategy that ran found an identifier
NothingFound == \A i \in DOMAIN trace : trace[i].pin = None

\* the text holds 8 consecutive characters that are, or are repaired to,
\* an identifier
ResemblesAt(T, i) ==
    /\ i >= 1
    /\ i + PinLen - 1 <= Len(T)
    /\ IsIdentifier(fix_by_position(SubSeq(T, i, i + PinLen - 1)))

NoResemblingRun(txt) == \A i \in 1..Len(txt) : ~ResemblesAt(upper(txt), i)

FromVision == Len(trace) > 0 /\ trace[Len(trace)].step \in {"gemini_fast", "gemini_strong"}

\* C1: every record returned with ok true carries an identifier of exactly
\* 8 characters, 2 digits, an upper-case letter of A-L, 4 digits and an
\* upper-case letter of {E,S,W,N,O}, and a confidence in (0.0, 1.0]; so
\* does a record whose identifier comes from the answer of a vision model,
\* which has passed the strict validator.
C1_OkCarriesValidIdentifier ==
    Returned /\ result.ok =>
        /\ result.nmc_pin # None
        /\ IsIdentifier(result.nmc_pin)
        /\ validate_strict(result.nmc_pin)
        /\ result.confidence > 0
        /\ result.confidence <= 100

\* an image file for which the fast model answered: the record carries
\* 16J0151E with the confidence of the fast model
C1_Witness ==
    /\ Returned
    /\ FromVision
    /\ result = OkRecord(Pin16, CONF_FAST)
    /\ lower(path_suffix) \in ImageSuffixes

\* C2: when no strategy finds an identifier the record returned is exactly
\* ok false, no identifier, confidence 0.0, in particular for a text file
\* with no run of 8 characters resembling the structure; and every record
\* with ok false has no identifier and confidence 0.0.
C2_FailureRecordExact ==
    Returned =>
        /\ NothingFound => result = FailureRecord
        /\ ~result.ok => result.nmc_pin = None /\ result.confidence = 0
        /\ StepsRun = <<"text">> /\ NoResemblingRun(text) => result = FailureRecord

\* a text file that was read and holds words only
C2_Witness ==
    /\ Returned
    /\ StepsRun = <<"text">>
    /\ text = Additional
    /\ failed = {}
    /\ result = FailureRecord

VisionSteps == {i \in DOMAIN trace : trace[i].step \in {"gemini_fast", "gemini_strong"}}

\* the model name passed to _call at a vision step
ModelQueried(i) == IF trace[i].step = "gemini_fast" THEN model_fast ELSE model_strong

\* C12: the fast model is queried first and the strong model only after
\* the fast model's call failed or its answer did not validate; each model
\* is queried at most once; the first validated answer is returned, with
\* confidence exactly 0.90 from the fast tier and 0.93 from the strong
\* tier, and nothing is returned by the vision strategy when neither
\* validates.
C12_VisionTiers ==
    /\ \A i \in VisionSteps :
          trace[i].step = "gemini_strong" =>
              /\ i - 1 \in VisionSteps
              /\ trace[i - 1].step = "gemini_fast"
              /\ trace[i - 1].pin = None
    /\ \A i \in VisionSteps :
          trace[i].step = "gemini_fast" => i - 1 \notin VisionSteps
    /\ \A i, j \in VisionSteps : i # j => ModelQueried(i) # ModelQueried(j)
    /\ \A i \in VisionSteps : trace[i].pin # None => Returned /\ i = Len(trace)
    /\ Returned /\ VisionSteps # {} =>
          LET last == trace[Len(trace)]
          IN  IF last.pin = None
              THEN result = FailureRecord /\ last.step = "gemini_strong"
              ELSE result = OkRecord(last.pin,
                                     IF last.step = "gemini_fast" THEN 90 ELSE 93)

IsPdf == lower(path_suffix) = PdfSuffix

\* the positions of the trace at which the text of a page was searched
PageSteps == {i \in DOMAIN trace : trace[i].step = "page"}

\* the loop over the pages has ended without a page giving an identifier
\* and without a failure
PagesExhausted ==
    /\ IsPdf
    /\ pc \notin {"entry", "pdf_open", "pdf_page"}
    /\ failed \cap {"open", "extract_text"} = {}
    /\ \A i \in PageSteps : trace[i].pin = None

\* C13: the pages of a PDF are read in order, up to the configured limit
\* and at least one; the text strategy runs on each non-empty page as it
\* is read; the result is that of the lowest-numbered page that gives an
\* identifier, and once a page has given one no later page is read and no
\* vision model is queried.
C13_PageShortCircuit ==
    /\ page <= doc_pages
    /\ page <= Max(1, text_pages)
    /\ PageSteps # {} => IsPdf
    /\ \A i \in PageSteps :
          /\ trace[i].at \in 1..page
          /\ \A j \in 1..(i - 1) :
                /\ j \in PageSteps
                /\ trace[j].at < trace[i].at
                /\ trace[j].pin = None
          /\ trace[i].pin # None =>
                /\ Returned
                /\ i = Len(trace)
                /\ page = trace[i].at
                /\ VisionSteps = {}
                /\ images = 0
                /\ \E t \in PageTexts \ {<<>>} :
                      /\ TextStrategy[t].val = trace[i].pin
                      /\ result = OkRecord(TextStrategy[t].val, TextStrategy[t].conf)
    /\ PagesExhausted =>
          /\ page >= 1
          /\ page = Min(doc_pages, Max(1, text_pages))
          /\ Len(combined_parts) = Cardinality(PageSteps)

\* a PDF of two pages with the default limit of 8: the first page gave
\* 23B0365O after its label, and the second page was not read
C13_Witness ==
    /\ Returned
    /\ IsPdf
    /\ doc_pages = 2
    /\ text_pages = NMC_PDF_TEXT_PAGES_DEFAULT
    /\ page = 1
    /\ trace = <<Step("page", 1, Pin23)>>
    /\ result = OkRecord(Pin23, CONF_ANCHOR_STRICT)

\* no page of the PDF gave an identifier by itself
NoPageYields == IsPdf /\ \A i \in PageSteps : trace[i].pin = None

\* the positions of the trace at which the joined text was searched
TextSteps == {i \in DOMAIN trace : trace[i].step = "text"}

\* C14 as stated: for a PDF in which no page's text gives an identifier,
\* every successful result comes from a vision model, with confidence 0.90
\* or 0.93, and from no further text-based step.
C14_OnlyVisionAfterPages ==
    Returned /\ NoPageYields /\ result.ok =>
        /\ FromVision
        /\ TextSteps = {} \/ \A i \in TextSteps : trace[i].pin = None
        /\ result.confidence \in {CONF_FAST, CONF_STRONG}

\* C14: for a PDF in which no page's text gives an identifier, the text
\* strategy is run once on the texts of the pages joined by line breaks
\* (on the empty text after a failure of reading) and its result, if any,
\* is returned; only otherwise the configured number of pages, at least
\* one, is rendered and the vision models are queried, so that a
\* successful result comes from the joined text or from a vision model
\* with confidence 0.90 or 0.93.
C14_JoinedTextThenVision ==
    Returned /\ NoPageYields =>
        /\ Cardinality(TextSteps) = 1
        /\ \A i \in TextSteps :
              /\ \A j \in 1..(i - 1) : j \in PageSteps
              /\ trace[i].pin = TextStrategy[text].val
              /\ trace[i].pin # None =>
                    /\ i = Len(trace)
                    /\ result = OkRecord(TextStrategy[text].val, TextStrategy[text].conf)
                    /\ images = 0
                    /\ VisionSteps = {}
              /\ trace[i].pin = None =>
                    /\ images <= Min(Max(1, image_pages), doc_pages)
                    /\ "render" \notin failed =>
                          images = Min(Max(1, image_pages), doc_pages)
                    /\ client /\ images > 0 => VisionSteps # {}
                    /\ result.ok =>
                          /\ FromVision
                          /\ result.confidence \in {CONF_FAST, CONF_STRONG}
        /\ failed \cap {"open", "extract_text"} = {} => text = Join(combined_parts)

\* a PDF of two pages, the label on the first and O9BO112E on the second:
\* neither page gives an identifier, the joined text gives 09B0112E as a
\* token after the label, and no vision model is queried
C14_Witness ==
    /\ Returned
    /\ IsPdf
    /\ combined_parts = <<LabelNmcPin, Noisy09>>
    /\ trace = <<Step("page", 1, None), Step("page", 2, None), Step("text", 0, Pin09)>>
    /\ result = OkRecord(Pin09, CONF_ANCHOR_TOKEN)
    /\ VisionSteps = {}

IsImage == lower(path_suffix) \in ImageSuffixes

\* C15: for a raster image file (.png, .jpg, .jpeg, .webp) only the vision
\* strategy runs, on exactly that one image, and the text strategy is never
\* applied, so that a successful result has confidence 0.90 or 0.93; for
\* every other file that is not a PDF only the text strategy runs, on the
\* decoded content, and no vision model is queried.
C15_RoutingBySourceKind ==
    Returned /\ ~IsPdf =>
        /\ PageSteps = {}
        /\ IF IsImage
           THEN /\ TextSteps = {}
                /\ images = 1
                /\ result.ok =>
                      /\ FromVision
                      /\ result.confidence \in {CONF_FAST, CONF_STRONG}
           ELSE /\ VisionSteps = {}
                /\ images = 0
                /\ StepsRun = <<"text">>
                /\ result = OtherFileResult(TextStrategy[text])

\* the record that a call with the locals l returns when it runs alone: it
\* is given by the last strategy that the call itself ran
ReturnsAlone(l, r) ==
    LET n == Len(l.trace)
    IN  IF n = 0 \/ l.trace[n].pin = None
        THEN r = FailureRecord
        ELSE /\ r.ok
             /\ r.nmc_pin = l.trace[n].pin
             /\ l.trace[n].step = "page" =>
                   \E t \in PageTexts :
                       r = OkRecord(TextStrategy[t].val, TextStrategy[t].conf)
             /\ l.trace[n].step = "text" =>
                   r = OkRecord(TextStrategy[l.text].val, TextStrategy[l.text].conf)
             /\ l.trace[n].step = "gemini_fast" =>
                   r = OkRecord(l.trace[n].pin, GeminiConf(model_fast))
             /\ l.trace[n].step = "gemini_strong" =>
                   r = OkRecord(l.trace[n].pin, GeminiConf(model_strong))

\* the locals l hold what the call itself has read and found, and nothing
\* of another call
OwnLocals(l) ==
    LET unread == {i \in DOMAIN l.trace :
                      l.trace[i].step = "page" /\ l.trace[i].pin = None}
    IN  /\ l.pc = "entry" => l = FreshLocals
        /\ Len(l.combined_parts) = Cardinality(unread)
        /\ Len(l.combined_parts) <= l.page
        /\ l.page <= l.doc_pages
        /\ (l.text # <<>> /\ lower(l.path_suffix) = PdfSuffix) =>
              l.text = Join(l.combined_parts)
        /\ l.pc # "returned" => l.result = FailureRecord
        /\ l.pc = "returned" => ReturnsAlone(l, l.result)

\* C16: no call of extract_nmc_pin writes the client, the model names or
\* the page limits of the module, and no step of one call changes a local
\* of another; under every interleaving of two calls each call holds what
\* it has read itself and returns the record that its own strategies give.
C16_StatelessAcrossCalls ==
    /\ [](OwnLocals(Locals) /\ OwnLocals(saved))
    /\ [][/\ config' = config
          /\ running' = running => saved' = saved
          /\ running' # running => saved' = Locals /\ Locals' = saved]_vars

\* the first call was suspended in the loop over the pages of a PDF, with
\* the text of one page kept; the second call has meanwhile read a text
\* file and returned 23B0365O
C16_Witness ==
    /\ running = 2
    /\ pc = "returned"
    /\ result = OkRecord(Pin23, CONF_ANCHOR_STRICT)
    /\ saved.pc = "pdf_page"
    /\ saved.page = 1
    /\ saved.combined_parts = <<LabelNmcPin>>

----------------------------------------------------------------------------
(* Properties of run_nmc_check_and_download_pdf, checked under SpecRunner. *)

RunReturned == rpc = "returned"

SnapshotPaths ==
    {f.prefix : f \in {CaptchaOnLanding, FillFailed, CaptchaAfterSearch,
                       NoViewDetails, NoDownload}}

\* C17: the driver always ends by returning a record with a success flag
\* and a non-empty path of a PDF (the official download, a snapshot of the
\* page, or an error PDF), whichever stage fails; it never raises to the
\* caller, and ok is true only when the official PDF was downloaded to a
\* non-empty file at the download stage.
C17_DriverAlwaysReturns ==
    /\ rpc # "raised"
    /\ rpc \notin {"returned", "raised"} => ENABLED RunnerNext
    /\ RunReturned =>
          /\ run_result.ok \in BOOLEAN
          /\ run_result.pdf_path # ""
          /\ run_result.ok =>
                /\ downloaded = "saved"
                /\ stage = "download"
                /\ run_result.stage = "download"
                /\ run_result.pdf_path = OfficialPdfPath
          /\ ~run_result.ok =>
                run_result.pdf_path \in SnapshotPaths \cup {ErrorPdfPath}

----------------------------------------------------------------------------
(* Properties of the request handlers, checked under SpecApp.              *)

\* C18: on the routes /run and /run-pin the driver is invoked only with a
\* structurally valid identifier; an empty, missing or invalid PIN never
\* reaches run_nmc_check_and_download_pdf.
C18_DriverGetsValidIdentifier ==
    \A i \in DOMAIN driver_calls :
        /\ driver_calls[i] # None
        /\ driver_calls[i] # <<>>
        /\ IsIdentifier(driver_calls[i])

====
